---------------------------- MODULE Spec2Model ----------------------------
(***************************************************************************)
(* Model of src/binance/future_rest.rs: the BinanceSwap REST client.      *)
(*                                                                         *)
(* Strings are sequences of byte codes, so that formatting, concatenation, *)
(* String::pop and the byte-wise ordering of BTreeMap<String, String> are  *)
(* computed and not assumed.  A call of a blocking method is one action:   *)
(* it draws the caller's arguments, the outcome of get_timestamp() and the *)
(* answer of the network, and records the requests it issued and what it   *)
(* returned.                                                               *)
(***************************************************************************)
EXTENDS Integers, Sequences, FiniteSets, TLC

VARIABLES
    api_key,     \* BinanceSwap.api_key
    secret_key,  \* BinanceSwap.secret_key
    host,        \* BinanceSwap.host
    params,      \* the BTreeMap<String, String> a caller is filling
    order,       \* the keys in the order the caller inserted them into params
    call,        \* the method invoked last and its arguments
    clock,       \* what get_timestamp() returned during that call
    sent,        \* the HTTP requests issued during that call, in order
    resp,        \* what the network answered to the last request
    result       \* what the call returned (or that it panicked)

vars == <<api_key, secret_key, host, params, order, call, clock, sent, resp, result>>

client == <<api_key, secret_key, host>>

----------------------------------------------------------------------------
(* String literals of the source, as byte codes.                           *)

\* "recvWindow"  (future_rest.rs:116)
k_recvWindow == <<114, 101, 99, 118, 87, 105, 110, 100, 111, 119>>
\* "5000"  (future_rest.rs:116)
v_5000 == <<53, 48, 48, 48>>
\* "timestamp"  (future_rest.rs:119)
k_timestamp == <<116, 105, 109, 101, 115, 116, 97, 109, 112>>
\* "symbol"  (future_rest.rs:242)
k_symbol == <<115, 121, 109, 98, 111, 108>>
\* "side"  (future_rest.rs:243)
k_side == <<115, 105, 100, 101>>
\* "type"  (future_rest.rs:244)
k_type == <<116, 121, 112, 101>>
\* "timeInForce"  (future_rest.rs:245)
k_timeInForce == <<116, 105, 109, 101, 73, 110, 70, 111, 114, 99, 101>>
\* "GTC"  (future_rest.rs:245)
v_GTC == <<71, 84, 67>>
\* "quantity"  (future_rest.rs:246)
k_quantity == <<113, 117, 97, 110, 116, 105, 116, 121>>
\* "price"  (future_rest.rs:247)
k_price == <<112, 114, 105, 99, 101>>
\* "orderId"  (future_rest.rs:258)
k_orderId == <<111, 114, 100, 101, 114, 73, 100>>
\* "="  (future_rest.rs:122)
s_eq == <<61>>
\* "&"  (future_rest.rs:122)
s_amp == <<38>>
\* "?"  (future_rest.rs:34)
s_qmark == <<63>>
\* "&signature="  (future_rest.rs:110)
s_signature == <<38, 115, 105, 103, 110, 97, 116, 117, 114, 101, 61>>
\* "listenKey="  (future_rest.rs:53)
s_listenKey == <<108, 105, 115, 116, 101, 110, 75, 101, 121, 61>>
\* "symbol="  (future_rest.rs:174)
s_symbol_eq == <<115, 121, 109, 98, 111, 108, 61>>
\* "&limit="  (future_rest.rs:174)
s_limit == <<38, 108, 105, 109, 105, 116, 61>>
\* "&interval="  (future_rest.rs:191)
s_interval == <<38, 105, 110, 116, 101, 114, 118, 97, 108, 61>>
\* "rsquant"  (future_rest.rs:134)
s_rsquant == <<114, 115, 113, 117, 97, 110, 116>>
\* "application/x-www-form-urlencoded"  (future_rest.rs:138)
s_form == <<97, 112, 112, 108, 105, 99, 97, 116, 105, 111, 110, 47, 120, 45, 119, 119, 119, 45, 102, 111, 114, 109, 45, 117, 114, 108, 101, 110, 99, 111, 100, 101, 100>>
\* "0123456789abcdef"  (future_rest.rs:109)
s_hexdigits == <<48, 49, 50, 51, 52, 53, 54, 55, 56, 57, 97, 98, 99, 100, 101, 102>>
\* "/fapi/v1/exchangeInfo"  (future_rest.rs:159)
uri_exchangeInfo == <<47, 102, 97, 112, 105, 47, 118, 49, 47, 101, 120, 99, 104, 97, 110, 103, 101, 73, 110, 102, 111>>
\* "/fapi/v1/depth"  (future_rest.rs:173)
uri_depth == <<47, 102, 97, 112, 105, 47, 118, 49, 47, 100, 101, 112, 116, 104>>
\* "/fapi/v1/ticker/bookTicker"  (future_rest.rs:181)
uri_bookTicker == <<47, 102, 97, 112, 105, 47, 118, 49, 47, 116, 105, 99, 107, 101, 114, 47, 98, 111, 111, 107, 84, 105, 99, 107, 101, 114>>
\* "/fapi/v1/klines"  (future_rest.rs:190)
uri_klines == <<47, 102, 97, 112, 105, 47, 118, 49, 47, 107, 108, 105, 110, 101, 115>>
\* "/fapi/v2/account"  (future_rest.rs:210)
uri_account == <<47, 102, 97, 112, 105, 47, 118, 50, 47, 97, 99, 99, 111, 117, 110, 116>>
\* "/fapi/v1/order"  (future_rest.rs:240)
uri_order == <<47, 102, 97, 112, 105, 47, 118, 49, 47, 111, 114, 100, 101, 114>>
\* "/fapi/v1/allOpenOrders"  (future_rest.rs:265)
uri_allOpenOrders == <<47, 102, 97, 112, 105, 47, 118, 49, 47, 97, 108, 108, 79, 112, 101, 110, 79, 114, 100, 101, 114, 115>>
\* "/fapi/v1/openOrder"  (future_rest.rs:285)
uri_openOrder == <<47, 102, 97, 112, 105, 47, 118, 49, 47, 111, 112, 101, 110, 79, 114, 100, 101, 114>>

----------------------------------------------------------------------------
(* Bounds of the model.                                                    *)

\* the number of insert calls a caller makes on one parameter map
MaxInserts == 3
\* the largest price and quantity a caller passes to create_order
MaxQty == 2
\* the largest number of rows in a kline payload
MaxRows == 2

----------------------------------------------------------------------------
(* APIResult<T> = Result<T, Box<dyn Error>>, and an abort of the thread.   *)

Unit == <<"()">>
NoResult == [kind |-> "None", err |-> "", msg |-> <<>>, val |-> Unit]
Ok(v) == [kind |-> "Ok", err |-> "", msg |-> <<>>, val |-> v]
Err(e, m) == [kind |-> "Err", err |-> e, msg |-> m, val |-> Unit]
Panic(m) == [kind |-> "Panic", err |-> "", msg |-> m, val |-> Unit]

\* ExError::ApiError(String)
ApiError(m) == Err("ExError::ApiError", m)

\* the ? operator: an Err returns at once, an Ok value goes on
IsOk(r) == r.kind = "Ok"

----------------------------------------------------------------------------
(* Strings.                                                                *)

Min(a, b) == IF a < b THEN a ELSE b

\* impl Ord for String: byte-wise lexicographic, a proper prefix is smaller
LexLess(a, b) ==
    \E i \in 1..(Min(Len(a), Len(b)) + 1) :
        /\ \A j \in 1..(i - 1) : a[j] = b[j]
        /\ \/ i > Len(a) /\ i <= Len(b)
           \/ i <= Len(a) /\ i <= Len(b) /\ a[i] < b[i]

\* u64::to_string, and f64::to_string on a whole non-negative value
RECURSIVE to_string(_)
to_string(n) ==
    IF n < 10 THEN <<48 + n>>
    ELSE to_string(n \div 10) \o <<48 + (n % 10)>>

\* String::pop: removes the last char, if any
pop(s) == IF s = <<>> THEN s ELSE SubSeq(s, 1, Len(s) - 1)

----------------------------------------------------------------------------
(* BTreeMap<String, String>: the entries <<key, value>> in key order.      *)

BTreeNew == <<>>

HasKey(m, k) == \E i \in 1..Len(m) : m[i][1] = k

\* a map that keeps the entries in insertion order
BTreeInsertUnsorted(m, k, v) ==
    IF HasKey(m, k)
    THEN [i \in 1..Len(m) |-> IF m[i][1] = k THEN <<k, v>> ELSE m[i]]
    ELSE Append(m, <<k, v>>)

\* BTreeMap::insert: replaces the value of a present key, else adds the
\* entry at its place in the key order
BTreeInsert(m, k, v) ==
    IF HasKey(m, k)
    THEN [i \in 1..Len(m) |-> IF m[i][1] = k THEN <<k, v>> ELSE m[i]]
    ELSE LET n == Cardinality({i \in 1..Len(m) : LexLess(m[i][1], k)})
         IN  SubSeq(m, 1, n) \o <<<<k, v>>>> \o SubSeq(m, n + 1, Len(m))

----------------------------------------------------------------------------
(* get_timestamp() of crate::utils: Err, or Ok(ts) in milliseconds.        *)

Timestamps == {7, 1620}

ClockOutcomes == {[ok |-> FALSE, ts |-> 0]} \cup {[ok |-> TRUE, ts |-> t] : t \in Timestamps}

NoClock == [ok |-> FALSE, ts |-> 0]

----------------------------------------------------------------------------
(* build_signed_request                                                    *)

\* for (k, v) in &params { req.push_str(format!("{}={}&", k, v)) }
RECURSIVE push_params(_, _, _)
push_params(req, p, i) ==
    IF i > Len(p) THEN req
    ELSE push_params(req \o p[i][1] \o s_eq \o p[i][2] \o s_amp, p, i + 1)

m_get_timestamp_failed == <<"get_timestamp failed">>

build_signed_request(ps, clk) ==
    LET p1 == BTreeInsert(ps, k_recvWindow, v_5000)
    IN  IF clk.ok
        THEN LET p2 == BTreeInsert(p1, k_timestamp, to_string(clk.ts))
                 req == push_params(<<>>, p2, 1)
             IN  Ok(<<"String", pop(req)>>)
        ELSE ApiError(m_get_timestamp_failed)

----------------------------------------------------------------------------
(* The network: what one HTTP exchange can come to.                        *)
(*   kind     "Response": send() returned a Response; "SendError": send()  *)
(*            returned a reqwest::Error; "None": nothing was sent          *)
(*   status   the status code of the Response                              *)
(*   textOk   Response::text() could read the body (else a reqwest::Error) *)
(*   body     the body, as the JSON document it holds (see Documents)      *)

Doc(shape, elem, rows, assets, id) ==
    [shape |-> shape, elem |-> elem, rows |-> rows, assets |-> assets, id |-> id]

EmptyBody == Doc("empty", "", <<>>, <<>>, 0)

NoResp == [kind |-> "None", status |-> 0, textOk |-> FALSE, body |-> EmptyBody]

SendFailed == [kind |-> "SendError", status |-> 0, textOk |-> FALSE, body |-> EmptyBody]

Response(status, textOk, body) ==
    [kind |-> "Response", status |-> status, textOk |-> textOk, body |-> body]

\* StatusCode::OK
StatusOK == 200

Statuses == {StatusOK, 201, 404}

\* the answers to a request whose body, when read, is one of docs
NetOutcomes(docs) ==
    {SendFailed}
        \cup {Response(s, TRUE, d) : s \in Statuses, d \in docs}
        \cup {Response(s, FALSE, EmptyBody) : s \in Statuses}

----------------------------------------------------------------------------
(* Requests, as handed to reqwest.                                         *)

NoHeaders == <<>>

Request(method, url, headers, hasBody, body) ==
    [method |-> method, url |-> url, headers |-> headers,
     hasBody |-> hasBody, body |-> body]

\* what a method hands back to its caller, with the requests it issued
Outcome(s, r, res) == [sent |-> s, resp |-> r, result |-> res]

\* HeaderValue::from_str accepts the visible ASCII bytes, space and tab
IsHeaderValue(s) ==
    \A i \in 1..Len(s) : (s[i] >= 32 /\ s[i] # 127) \/ s[i] = 9

build_headers(content_type) ==
    LET h1 == "user-agent" :> s_rsquant
        h2 == IF content_type THEN h1 @@ ("content-type" :> s_form) ELSE h1
    IN  IF IsHeaderValue(api_key)
        THEN Ok(<<"HeaderMap", h2 @@ ("x-mbx-apikey" :> api_key)>>)
        ELSE Err("InvalidHeaderValue", <<"x-mbx-apikey">>)

\* a variant that reads the status only to tell 2xx from the rest
handler_2xx(r) ==
    IF r.status \div 100 = 2
    THEN IF r.textOk THEN Ok(<<"String", r.body>>)
         ELSE Err("reqwest::Error", <<"text">>)
    ELSE ApiError(<<"response: ", r.status>>)

handler(r) ==
    IF r.status = StatusOK
    THEN IF r.textOk THEN Ok(<<"String", r.body>>)
         ELSE Err("reqwest::Error", <<"text">>)
    ELSE ApiError(<<"response: ", r.status>>)

\* RequestBuilder::send()? followed by self.handler(resp)
send(req, net) ==
    IF net.kind = "Response"
    THEN Outcome(<<req>>, net, handler(net))
    ELSE Outcome(<<req>>, net, Err("reqwest::Error", <<"send">>))

\* client.<method>(url).headers(self.build_headers(ct)?)[.body(data)].send()?
send_with_headers(method, url, ct, hasBody, data, net) ==
    LET hs == build_headers(ct)
    IN  IF IsOk(hs)
        THEN send(Request(method, url, hs.val[2], hasBody, data), net)
        ELSE Outcome(<<>>, NoResp, hs)

----------------------------------------------------------------------------
(* sign: HMAC-SHA256 of the request under the secret key, hex-encoded.     *)

\* the length of a SHA-256 digest, in bytes
DigestLen == 32

\* the weight of the byte at position i
weight(i) == ((i * i + 7 * i) % 251) + 1

RECURSIVE absorb(_, _, _)
absorb(s, lo, hi) ==
    IF lo > hi THEN 0
    ELSE IF lo = hi THEN (s[lo] + 1) * weight(lo)
    ELSE LET mid == (lo + hi) \div 2
         IN  (absorb(s, lo, mid) + absorb(s, mid + 1, hi)) % 65521

\* hmac::sign(&key, message): stands for HMAC-SHA256 by a keyed checksum of
\* the key bytes and the message bytes, spread over DigestLen bytes
hmac_sign(key, message) ==
    LET h == (absorb(key, 1, Len(key)) * 257 + absorb(message, 1, Len(message))
                  + Len(key) + 7) % 65521
    IN  [i \in 1..DigestLen |-> ((h + 131 * i) * i + (h \div 256)) % 256]

\* hex::encode: two lowercase hex digits per byte
hex_encode(bytes) ==
    [i \in 1..(2 * Len(bytes)) |->
        LET b == bytes[(i + 1) \div 2]
        IN  IF i % 2 = 1 THEN s_hexdigits[(b \div 16) + 1]
            ELSE s_hexdigits[(b % 16) + 1]]

\* a variant that signs the endpoint together with the request
sign_with_endpoint(endpoint, request) ==
    LET signature == hex_encode(hmac_sign(secret_key, endpoint \o request))
        body == request \o s_signature \o signature
    IN  host \o endpoint \o s_qmark \o body

sign(endpoint, request) ==
    LET signature == hex_encode(hmac_sign(secret_key, request))
        body == request \o s_signature \o signature
    IN  host \o endpoint \o s_qmark \o body

----------------------------------------------------------------------------
(* The transport verbs.                                                    *)

\* reqwest::blocking::get(url): a default client, no header of this crate
get(endpoint, request, net) ==
    LET base == host \o endpoint
        url == IF request # <<>> THEN base \o s_qmark \o request ELSE base
    IN  send(Request("GET", url, NoHeaders, FALSE, <<>>), net)

post(endpoint, net) ==
    send_with_headers("POST", host \o endpoint, FALSE, FALSE, <<>>, net)

put(endpoint, key, net) ==
    send_with_headers("PUT", host \o endpoint, FALSE, TRUE, s_listenKey \o key, net)

delete(endpoint, key, net) ==
    send_with_headers("DELETE", host \o endpoint, FALSE, TRUE, s_listenKey \o key, net)

get_signed(endpoint, request, net) ==
    send_with_headers("GET", sign(endpoint, request), TRUE, FALSE, <<>>, net)

post_signed(endpoint, request, net) ==
    send_with_headers("POST", sign(endpoint, request), TRUE, FALSE, <<>>, net)

delete_signed(endpoint, request, net) ==
    send_with_headers("DELETE", sign(endpoint, request), TRUE, FALSE, <<>>, net)

----------------------------------------------------------------------------
(* Documents: the JSON a body holds, by its shape.                         *)
(*   "empty"         a body of no bytes                                    *)
(*   "text"          bytes that are not JSON                               *)
(*   "object"        a JSON object of none of the shapes below, such as    *)
(*                   {"code": -1121, "msg": "Invalid symbol."}             *)
(*   "exchangeInfo"  an object with the symbol list  (rows: the symbols)   *)
(*   "depth"         an order book object                                  *)
(*   "bookTicker"    a best bid/ask object                                 *)
(*   "account"       an account object               (assets: the assets)  *)
(*   "order"         an order object                 (id: its orderId)     *)
(*   "array"         a JSON array (rows: its elements; elem: "array" for   *)
(*                   rows of values, "order" for order ids)                *)

\* serde_json::Value of a kline cell: a JSON number, or a numeric string
NumVal(n) == [t |-> "Number", n |-> n, s |-> <<>>]
StrVal(n) == [t |-> "String", n |-> 0, s |-> to_string(n)]

\* a kline row of len cells
Row(len, asString) == [i \in 1..len |-> IF asString THEN StrVal(i) ELSE NumVal(i)]

KlineRows == {Row(0, FALSE), Row(5, FALSE), Row(6, FALSE), Row(6, TRUE), Row(7, FALSE)}

RECURSIVE SeqsUpTo(_, _)
SeqsUpTo(S, n) ==
    IF n = 0 THEN {<<>>}
    ELSE LET shorter == SeqsUpTo(S, n - 1)
         IN  shorter \cup {Append(q, x) : q \in shorter, x \in S}

KlineDocs == {Doc("array", IF r = <<>> THEN "" ELSE "array", r, <<>>, 0) :
                  r \in SeqsUpTo(KlineRows, MaxRows)}

sym_BTCUSDT == <<66, 84, 67, 85, 83, 68, 84>>  \* "BTCUSDT"
sym_ETHUSDT == <<69, 84, 72, 85, 83, 68, 84>>  \* "ETHUSDT"
asset_USDT == <<85, 83, 68, 84>>  \* "USDT"
asset_BTC == <<66, 84, 67>>  \* "BTC"

\* one entry of RawSwapAccount.assets
RawAsset(asset, available, wallet) ==
    [asset |-> asset, available_balance |-> to_string(available),
     wallet_balance |-> to_string(wallet)]

AssetLists ==
    { <<>>,
      <<RawAsset(asset_USDT, 100, 150)>>,
      <<RawAsset(asset_BTC, 2, 2)>>,
      <<RawAsset(asset_BTC, 2, 2), RawAsset(asset_USDT, 100, 150)>>,
      <<RawAsset(asset_USDT, 100, 150), RawAsset(asset_USDT, 0, 0)>> }

AccountDocs == {Doc("account", "", <<>>, a, 0) : a \in AssetLists}

OrderIds == {1, 42}

OrderDocs == {Doc("order", "", <<>>, <<>>, i) : i \in OrderIds}

OrderListDocs == {Doc("array", IF r = <<>> THEN "" ELSE "order", r, <<>>, 0) :
                      r \in {<<>>, <<1>>, <<1, 42>>}}

PlainDocs ==
    { EmptyBody,
      Doc("text", "", <<>>, <<>>, 0),
      Doc("object", "", <<>>, <<>>, 0),
      Doc("exchangeInfo", "", <<sym_BTCUSDT, sym_ETHUSDT>>, <<>>, 0),
      Doc("depth", "", <<>>, <<>>, 0),
      Doc("bookTicker", "", <<>>, <<>>, 0) }

\* one body of each shape: what a call is answered with when the payload
\* inside the shape makes no difference to it
SomeDocs ==
    PlainDocs \cup
    { Doc("array", "", <<>>, <<>>, 0),
      Doc("array", "array", <<Row(6, FALSE)>>, <<>>, 0),
      Doc("array", "order", <<1>>, <<>>, 0),
      Doc("account", "", <<>>, <<RawAsset(asset_USDT, 100, 150)>>, 0),
      Doc("order", "", <<>>, <<>>, 42) }

----------------------------------------------------------------------------
(* Decoding and conversion.                                                *)

\* which documents deserialize into which type
Decodes(T, d) ==
    CASE T = "ExchangeInfo" -> d.shape = "exchangeInfo"
      [] T = "RawOrderbook" -> d.shape = "depth"
      [] T = "RawTicker" -> d.shape = "bookTicker"
      [] T = "Vec<Vec<Value>>" -> d.shape = "array" /\ d.elem \in {"", "array"}
      [] T = "RawSwapAccount" -> d.shape = "account"
      [] T = "OrderResult" -> d.shape = "order"
      [] T = "RawOrder" -> d.shape = "order"
      [] T = "Vec<RawOrder>" -> d.shape = "array" /\ d.elem \in {"", "order"}
      [] OTHER -> FALSE

\* serde_json::from_str::<T>(&ret)?
from_str(T, d) ==
    IF Decodes(T, d) THEN Ok(<<T, d>>) ELSE Err("serde_json::Error", <<T>>)

\* the From conversions of the raw types into the normalized ones
into(T, raw) == <<T, raw>>

RECURSIVE parse_decimal(_, _, _)
parse_decimal(acc, s, i) ==
    IF i > Len(s) THEN acc ELSE parse_decimal(acc * 10 + (s[i] - 48), s, i + 1)

\* str_to_f64 of crate::utils, on the text of a whole number
str_to_f64(s) == parse_decimal(0, s, 1)

\* to_i64 and to_f64 of crate::utils: a JSON number or a numeric string
to_f64(v) == IF v.t = "Number" THEN v.n ELSE str_to_f64(v.s)
to_i64(v) == to_f64(v)

\* Vec's Index: kline[i] aborts the thread when i is not below the length.
\* The fields are built in order, from index 0, so the first index to fail
\* is the length of the row.
IndexPanic(row) == Panic(<<"index out of bounds: the len is ", Len(row)>>)

\* the closure of get_kline's map, applied to one row (indices from 0)
KlineOf(row) ==
    IF Len(row) < 6 THEN IndexPanic(row)
    ELSE Ok([timestamp |-> to_i64(row[1]), open |-> to_f64(row[2]),
             high |-> to_f64(row[3]), low |-> to_f64(row[4]),
             close |-> to_f64(row[5]), volume |-> to_f64(row[6])])

\* resp.iter().map(..).collect(): the rows in order, up to the first abort
KlinesOf(rows) ==
    IF \E i \in 1..Len(rows) : ~IsOk(KlineOf(rows[i]))
    THEN LET i == CHOOSE j \in 1..Len(rows) :
                      /\ ~IsOk(KlineOf(rows[j]))
                      /\ \A k \in 1..(j - 1) : IsOk(KlineOf(rows[k]))
         IN  KlineOf(rows[i])
    ELSE Ok(<<"Vec<Kline>", [i \in 1..Len(rows) |-> KlineOf(rows[i]).val]>>)

----------------------------------------------------------------------------
(* The capabilities.  out.result.val[2] is the body handler returned.      *)

\* a result put in the place of the transport's
Returning(out, r) == [out EXCEPT !.result = r]

\* nothing was sent: the call returned before reaching the transport
NotSent(r) == Outcome(<<>>, NoResp, r)

get_symbols(net) ==
    LET out == get(uri_exchangeInfo, <<>>, net)
    IN  IF ~IsOk(out.result) THEN out
        ELSE LET resp_ == from_str("ExchangeInfo", out.result.val[2])
             IN  IF ~IsOk(resp_) THEN Returning(out, resp_)
                 ELSE Returning(out, Ok(into("Vec<SymbolInfo>", resp_.val[2])))

get_orderbook(symbol, depth, net) ==
    LET request == s_symbol_eq \o symbol \o s_limit \o to_string(depth)
        out == get(uri_depth, request, net)
    IN  IF ~IsOk(out.result) THEN out
        ELSE LET resp_ == from_str("RawOrderbook", out.result.val[2])
             IN  IF ~IsOk(resp_) THEN Returning(out, resp_)
                 ELSE Returning(out, Ok(into("Orderbook", resp_.val[2])))

get_ticker(symbol, net) ==
    LET request == s_symbol_eq \o symbol
        out == get(uri_bookTicker, request, net)
    IN  IF ~IsOk(out.result) THEN out
        ELSE LET resp_ == from_str("RawTicker", out.result.val[2])
             IN  IF ~IsOk(resp_) THEN Returning(out, resp_)
                 ELSE Returning(out, Ok(into("Ticker", resp_.val[2])))

get_kline(symbol, period, limit, net) ==
    LET request == s_symbol_eq \o symbol \o s_interval \o period
                       \o s_limit \o to_string(limit)
        out == get(uri_klines, request, net)
    IN  IF ~IsOk(out.result) THEN out
        ELSE LET resp_ == from_str("Vec<Vec<Value>>", out.result.val[2])
             IN  IF ~IsOk(resp_) THEN Returning(out, resp_)
                 ELSE Returning(out, KlinesOf(resp_.val[2].rows))

m_asset_not_found == <<"asset not found">>

\* val.assets.iter().find(|balance| balance.asset == asset), then the match
BalanceOf(assets, asset) ==
    IF \E i \in 1..Len(assets) : assets[i].asset = asset
    THEN LET i == CHOOSE j \in 1..Len(assets) :
                      /\ assets[j].asset = asset
                      /\ \A k \in 1..(j - 1) : assets[k].asset # asset
             bal == assets[i]
         IN  Ok(<<"Balance",
                  [asset |-> asset,
                   free |-> str_to_f64(bal.available_balance),
                   locked |-> str_to_f64(bal.wallet_balance)
                                  - str_to_f64(bal.available_balance)]>>)
    ELSE ApiError(m_asset_not_found)

get_balance(asset, clk, net) ==
    LET req == build_signed_request(BTreeNew, clk)
    IN  IF ~IsOk(req) THEN NotSent(req)
        ELSE LET out == get_signed(uri_account, req.val[2], net)
             IN  IF ~IsOk(out.result) THEN out
                 ELSE LET val == from_str("RawSwapAccount", out.result.val[2])
                      IN  IF ~IsOk(val) THEN Returning(out, val)
                          ELSE Returning(out, BalanceOf(val.val[2].assets, asset))

create_order(symbol, price, amount, action, order_type, clk, net) ==
    LET p1 == BTreeInsert(BTreeNew, k_symbol, symbol)
        p2 == BTreeInsert(p1, k_side, action)
        p3 == BTreeInsert(p2, k_type, order_type)
        p4 == BTreeInsert(p3, k_timeInForce, v_GTC)
        p5 == BTreeInsert(p4, k_quantity, to_string(amount))
        p6 == BTreeInsert(p5, k_price, to_string(price))
        req == build_signed_request(p6, clk)
    IN  IF ~IsOk(req) THEN NotSent(req)
        ELSE LET out == post_signed(uri_order, req.val[2], net)
             IN  IF ~IsOk(out.result) THEN out
                 ELSE LET resp_ == from_str("OrderResult", out.result.val[2])
                      IN  IF ~IsOk(resp_) THEN Returning(out, resp_)
                          ELSE Returning(out, Ok(<<"String", to_string(resp_.val[2].id)>>))

cancel(id, clk, net) ==
    LET req == build_signed_request(BTreeInsert(BTreeNew, k_orderId, id), clk)
    IN  IF ~IsOk(req) THEN NotSent(req)
        ELSE LET out == delete_signed(uri_order, req.val[2], net)
             IN  IF ~IsOk(out.result) THEN out
                 ELSE Returning(out, Ok(<<"bool", TRUE>>))

cancel_all(symbol, clk, net) ==
    LET req == build_signed_request(BTreeInsert(BTreeNew, k_symbol, symbol), clk)
    IN  IF ~IsOk(req) THEN NotSent(req)
        ELSE LET out == delete_signed(uri_allOpenOrders, req.val[2], net)
             IN  IF ~IsOk(out.result) THEN out
                 ELSE Returning(out, Ok(<<"bool", TRUE>>))

get_order(id, clk, net) ==
    LET req == build_signed_request(BTreeInsert(BTreeNew, k_orderId, id), clk)
    IN  IF ~IsOk(req) THEN NotSent(req)
        ELSE LET out == get_signed(uri_order, req.val[2], net)
             IN  IF ~IsOk(out.result) THEN out
                 ELSE LET resp_ == from_str("RawOrder", out.result.val[2])
                      IN  IF ~IsOk(resp_) THEN Returning(out, resp_)
                          ELSE Returning(out, Ok(into("Order", resp_.val[2])))

get_open_orders(symbol, clk, net) ==
    LET req == build_signed_request(BTreeInsert(BTreeNew, k_symbol, symbol), clk)
    IN  IF ~IsOk(req) THEN NotSent(req)
        ELSE LET out == get_signed(uri_openOrder, req.val[2], net)
             IN  IF ~IsOk(out.result) THEN out
                 ELSE LET resp_ == from_str("Vec<RawOrder>", out.result.val[2])
                      IN  IF ~IsOk(resp_) THEN Returning(out, resp_)
                          ELSE Returning(out, Ok(into("Vec<Order>", resp_.val[2])))

m_not_implemented == <<"not implemented">>

\* unimplemented!()
get_history_orders(symbol) == NotSent(Panic(m_not_implemented))

----------------------------------------------------------------------------
(* The clients and the arguments the model calls them with.                *)

host_fapi == <<104, 116, 116, 112, 115, 58, 47, 47, 102, 97, 112, 105, 46, 98, 105, 110, 97, 110, 99, 101, 46, 99, 111, 109>>  \* "https://fapi.binance.com"
key_valid == <<78, 57, 81, 65>>  \* "N9QA"
key_newline == <<78, 57, 10>>  \* "N9\n", not a header value
secret_valid == <<108, 67, 117, 117>>  \* "lCuu"
period_1m == <<49, 109>>  \* "1m"
side_BUY == <<66, 85, 89>>  \* "BUY"
side_SELL == <<83, 69, 76, 76>>  \* "SELL"
type_LIMIT == <<76, 73, 77, 73, 84>>  \* "LIMIT"
id_1 == <<49>>  \* "1"
id_42 == <<52, 50>>  \* "42"
uri_listenKey == <<47, 102, 97, 112, 105, 47, 118, 49, 47, 108, 105, 115, 116, 101, 110, 75, 101, 121>>  \* "/fapi/v1/listenKey"

\* new(None, ..) leaves the key empty
ApiKeys == {<<>>, key_valid, key_newline}
Secrets == {<<>>, secret_valid}
Hosts == {host_fapi}

Symbols == {sym_BTCUSDT, sym_ETHUSDT}
Assets == {asset_USDT, asset_BTC}
Depths == {5, 10}
Periods == {period_1m}
Limits == {10, 500}
Sides == {side_BUY, side_SELL}
OrderTypes == {type_LIMIT}
Ids == {id_1, id_42}
Quantities == 1..MaxQty
Endpoints == {uri_depth, uri_listenKey}
ListenKeys == {<<>>, id_42}
ParamKeys == {k_orderId, k_price, k_quantity, k_recvWindow, k_side, k_symbol,
              k_timeInForce, k_timestamp, k_type}
ParamValues == {v_GTC, id_42}

\* the request strings given to the verbs called directly
Requests == {<<>>, s_symbol_eq \o sym_BTCUSDT,
             k_recvWindow \o s_eq \o v_5000 \o s_amp \o k_timestamp \o s_eq \o to_string(7)}

----------------------------------------------------------------------------
(* The state machine.                                                      *)

NoCall == [op |-> "none", args |-> <<>>]

Init ==
    /\ api_key \in ApiKeys
    /\ secret_key \in Secrets
    /\ host \in Hosts
    /\ params = BTreeNew
    /\ order = <<>>
    /\ call = NoCall
    /\ clock = NoClock
    /\ sent = <<>>
    /\ resp = NoResp
    /\ result = NoResult

\* a blocking call of method op: the whole of it, from the arguments to the
\* value handed back
Invoke(op, args, clk, out) ==
    /\ call' = [op |-> op, args |-> args]
    /\ clock' = clk
    /\ sent' = out.sent
    /\ resp' = out.resp
    /\ result' = out.result
    /\ UNCHANGED <<client, params, order>>

\* the caller has the result; nothing of a call outlives it, the client
\* keeps no state but its three fields
Return ==
    /\ call # NoCall
    /\ call' = NoCall
    /\ clock' = NoClock
    /\ sent' = <<>>
    /\ resp' = NoResp
    /\ result' = NoResult
    /\ params' = BTreeNew
    /\ order' = <<>>
    /\ UNCHANGED client

CallGet ==
    \E e \in Endpoints, q \in Requests, net \in NetOutcomes(SomeDocs) :
        /\ call = NoCall
        /\ Invoke("get", <<e, q>>, NoClock, get(e, q, net))

CallPost ==
    \E e \in Endpoints, net \in NetOutcomes(SomeDocs) :
        /\ call = NoCall
        /\ Invoke("post", <<e>>, NoClock, post(e, net))

CallPut ==
    \E e \in Endpoints, k \in ListenKeys, net \in NetOutcomes(SomeDocs) :
        /\ call = NoCall
        /\ Invoke("put", <<e, k>>, NoClock, put(e, k, net))

CallDelete ==
    \E e \in Endpoints, k \in ListenKeys, net \in NetOutcomes(SomeDocs) :
        /\ call = NoCall
        /\ Invoke("delete", <<e, k>>, NoClock, delete(e, k, net))

CallGetSigned ==
    \E e \in Endpoints, q \in Requests, net \in NetOutcomes(SomeDocs) :
        /\ call = NoCall
        /\ Invoke("get_signed", <<e, q>>, NoClock, get_signed(e, q, net))

CallPostSigned ==
    \E e \in Endpoints, q \in Requests, net \in NetOutcomes(SomeDocs) :
        /\ call = NoCall
        /\ Invoke("post_signed", <<e, q>>, NoClock, post_signed(e, q, net))

CallDeleteSigned ==
    \E e \in Endpoints, q \in Requests, net \in NetOutcomes(SomeDocs) :
        /\ call = NoCall
        /\ Invoke("delete_signed", <<e, q>>, NoClock, delete_signed(e, q, net))

CallGetSymbols ==
    \E net \in NetOutcomes(SomeDocs) :
        /\ call = NoCall
        /\ Invoke("get_symbols", <<>>, NoClock, get_symbols(net))

CallGetOrderbook ==
    \E sy \in Symbols, d \in Depths, net \in NetOutcomes(SomeDocs) :
        /\ call = NoCall
        /\ Invoke("get_orderbook", <<sy, d>>, NoClock, get_orderbook(sy, d, net))

CallGetTicker ==
    \E sy \in Symbols, net \in NetOutcomes(SomeDocs) :
        /\ call = NoCall
        /\ Invoke("get_ticker", <<sy>>, NoClock, get_ticker(sy, net))

CallGetKline ==
    \E sy \in Symbols, p \in Periods, l \in Limits,
       net \in NetOutcomes(SomeDocs \cup KlineDocs) :
        /\ call = NoCall
        /\ Invoke("get_kline", <<sy, p, l>>, NoClock, get_kline(sy, p, l, net))

CallGetBalance ==
    \E a \in Assets, clk \in ClockOutcomes,
       net \in NetOutcomes(SomeDocs \cup AccountDocs) :
        /\ call = NoCall
        /\ Invoke("get_balance", <<a>>, clk, get_balance(a, clk, net))

CallCreateOrder ==
    \E sy \in Symbols, pr \in Quantities, am \in Quantities, a \in Sides,
       t \in OrderTypes, clk \in ClockOutcomes,
       net \in NetOutcomes(SomeDocs \cup OrderDocs) :
        /\ call = NoCall
        /\ Invoke("create_order", <<sy, pr, am, a, t>>, clk,
                  create_order(sy, pr, am, a, t, clk, net))

CallCancel ==
    \E id \in Ids, clk \in ClockOutcomes, net \in NetOutcomes(SomeDocs) :
        /\ call = NoCall
        /\ Invoke("cancel", <<id>>, clk, cancel(id, clk, net))

CallCancelAll ==
    \E sy \in Symbols, clk \in ClockOutcomes, net \in NetOutcomes(SomeDocs) :
        /\ call = NoCall
        /\ Invoke("cancel_all", <<sy>>, clk, cancel_all(sy, clk, net))

CallGetOrder ==
    \E id \in Ids, clk \in ClockOutcomes,
       net \in NetOutcomes(SomeDocs \cup OrderDocs) :
        /\ call = NoCall
        /\ Invoke("get_order", <<id>>, clk, get_order(id, clk, net))

CallGetOpenOrders ==
    \E sy \in Symbols, clk \in ClockOutcomes,
       net \in NetOutcomes(SomeDocs \cup OrderListDocs) :
        /\ call = NoCall
        /\ Invoke("get_open_orders", <<sy>>, clk, get_open_orders(sy, clk, net))

CallGetHistoryOrders ==
    \E sy \in Symbols :
        /\ call = NoCall
        /\ Invoke("get_history_orders", <<sy>>, NoClock, get_history_orders(sy))

Next ==
    \/ CallGet
    \/ CallPost
    \/ CallPut
    \/ CallDelete
    \/ CallGetSigned
    \/ CallPostSigned
    \/ CallDeleteSigned
    \/ CallGetSymbols
    \/ CallGetOrderbook
    \/ CallGetTicker
    \/ CallGetKline
    \/ CallGetBalance
    \/ CallCreateOrder
    \/ CallCancel
    \/ CallCancelAll
    \/ CallGetOrder
    \/ CallGetOpenOrders
    \/ CallGetHistoryOrders
    \/ Return

Spec == Init /\ [][Next]_vars

----------------------------------------------------------------------------
(* build_signed_request on its own: a caller fills a map, in any order,    *)
(* and hands it over.                                                      *)

Insert ==
    \E k \in ParamKeys, v \in ParamValues :
        /\ call = NoCall
        /\ Len(order) < MaxInserts
        /\ params' = BTreeInsert(params, k, v)
        /\ order' = Append(order, k)
        /\ UNCHANGED <<client, call, clock, sent, resp, result>>

CallBuildSignedRequest ==
    \E clk \in ClockOutcomes :
        /\ call = NoCall
        /\ call' = [op |-> "build_signed_request", args |-> <<params>>]
        /\ clock' = clk
        /\ result' = build_signed_request(params, clk)
        /\ params' = BTreeNew
        /\ UNCHANGED <<client, order, sent, resp>>

NextBuild ==
    \/ Insert
    \/ CallBuildSignedRequest
    \/ Return

\* build_signed_request reads no field of the client: one client is enough
InitBuild ==
    /\ Init
    /\ api_key = key_valid
    /\ secret_key = secret_valid

SpecBuild == InitBuild /\ [][NextBuild]_vars

----------------------------------------------------------------------------
(* What the properties speak of.                                           *)

TransportVerbs == {"get", "post", "put", "delete",
                   "get_signed", "post_signed", "delete_signed"}

SignedVerbs == {"get_signed", "post_signed", "delete_signed"}

SignedCapabilities == {"get_balance", "create_order", "cancel", "cancel_all",
                       "get_order", "get_open_orders"}

Capabilities == SignedCapabilities \cup
                    {"get_orderbook", "get_ticker", "get_kline", "get_history_orders"}

Range(f) == {f[i] : i \in DOMAIN f}

IsApiError(r) == r.kind = "Err" /\ r.err = "ExError::ApiError"

\* the places of byte c in s
Places(s, c) == {i \in 1..Len(s) : s[i] = c}

\* s cut at every byte c: the pieces between, in order
Pieces(s, c) ==
    LET cuts == {0} \cup Places(s, c) \cup {Len(s) + 1}
        cut(k) == CHOOSE x \in cuts : Cardinality({y \in cuts : y < x}) = k
    IN  [k \in 1..(Cardinality(cuts) - 1) |-> SubSeq(s, cut(k - 1) + 1, cut(k) - 1)]

\* a piece k=v at its first '=': the key, and the value
FirstEq(piece) == CHOOSE i \in Places(piece, 61) : \A j \in Places(piece, 61) : i <= j
KeyIn(piece) == SubSeq(piece, 1, FirstEq(piece) - 1)
ValueIn(piece) == SubSeq(piece, FirstEq(piece) + 1, Len(piece))

----------------------------------------------------------------------------
----------------------------------------------------------------------------
\* C2: the string build_signed_request returns is the entries k=v of the map
\* it was given, with recvWindow=5000 and timestamp=<ts> put in, each key
\* once, in strictly ascending byte order of the keys, joined by '&', with no
\* separator at either end, in whatever order the caller inserted the keys.
CanonicalOrdering ==
    (call.op = "build_signed_request" /\ IsOk(result)) =>
        LET q == result.val[2]
            pieces == Pieces(q, 38)
            given == {e \in Range(call.args[1]) : e[1] \notin {k_recvWindow, k_timestamp}}
        IN  /\ q # <<>> /\ q[1] # 38 /\ q[Len(q)] # 38
            /\ \A i \in 1..Len(pieces) :
                   Places(pieces[i], 61) # {} /\ KeyIn(pieces[i]) # <<>>
            /\ \A i \in 1..(Len(pieces) - 1) :
                   LexLess(KeyIn(pieces[i]), KeyIn(pieces[i + 1]))
            /\ {<<KeyIn(pc), ValueIn(pc)>> : pc \in Range(pieces)}
                   = given \cup {<<k_recvWindow, v_5000>>,
                                 <<k_timestamp, to_string(clock.ts)>>}
            /\ {KeyIn(pc) : pc \in Range(pieces)}
                   = Range(order) \cup {k_recvWindow, k_timestamp}

\* C2: a map filled in descending key order, with a key that sorts after
\* timestamp and one that sorts before recvWindow, was serialized
CanonicalOrderingWitness ==
    /\ call.op = "build_signed_request"
    /\ IsOk(result)
    /\ Len(order) >= 2
    /\ order[1] = k_type
    /\ order[2] = k_orderId

----------------------------------------------------------------------------
\* the endpoint of a signed capability
UriOf(op) ==
    CASE op = "get_balance" -> uri_account
      [] op = "create_order" -> uri_order
      [] op = "cancel" -> uri_order
      [] op = "cancel_all" -> uri_allOpenOrders
      [] op = "get_order" -> uri_order
      [] op = "get_open_orders" -> uri_openOrder

\* url is head + q + '&signature=' + the hex signature of q under the secret
\* key, and nothing more
IsSignedUrl(url, head, q) ==
    LET n == Len(url) - 2 * DigestLen
        sig == SubSeq(url, n + 1, Len(url))
        tag == SubSeq(url, n - Len(s_signature) + 1, n)
        transmitted == SubSeq(url, Len(head) + 1, n - Len(s_signature))
    IN  /\ Len(url) = Len(head) + Len(q) + Len(s_signature) + 2 * DigestLen
        /\ SubSeq(url, 1, Len(head)) = head
        /\ transmitted = q
        /\ tag = s_signature
        /\ sig = hex_encode(hmac_sign(secret_key, transmitted))
        /\ \A i \in 1..Len(sig) : sig[i] \in Range(s_hexdigits)

\* the query of url: what lies between its first '?' and the last
\* '&signature=' with the signature after it
QueryOf(url) ==
    LET qm == CHOOSE i \in Places(url, 63) : \A j \in Places(url, 63) : i <= j
    IN  SubSeq(url, qm + 1, Len(url) - 2 * DigestLen - Len(s_signature))

\* C3: the URL a signed verb sends is host + endpoint + '?' + Q +
\* '&signature=' + hex(HMAC(secret, Q)) for the string Q it was given: the
\* signature is taken over the very string that is sent, and it comes last.
\* The same holds of the URL a signed capability sends, Q being the query
\* after its endpoint, which has recvWindow and timestamp in it.
SignedUrl ==
    /\ (call.op \in SignedVerbs /\ sent # <<>>) =>
           IsSignedUrl(sent[1].url, host \o call.args[1] \o s_qmark, call.args[2])
    /\ (call.op \in SignedCapabilities /\ sent # <<>>) =>
           LET url == sent[1].url
               q == QueryOf(url)
               pairs == {<<KeyIn(pc), ValueIn(pc)>> : pc \in Range(Pieces(q, 38))}
           IN  /\ IsSignedUrl(url, host \o UriOf(call.op) \o s_qmark, q)
               /\ <<k_recvWindow, v_5000>> \in pairs
               /\ <<k_timestamp, to_string(clock.ts)>> \in pairs

\* C3: a signed POST of a non-empty query under a non-empty secret was sent
SignedUrlWitness ==
    /\ call.op = "post_signed"
    /\ sent # <<>>
    /\ call.args[2] # <<>>
    /\ secret_key # <<>>

----------------------------------------------------------------------------
Headers(r) == DOMAIN r.headers

\* C4: the form content-type is set on exactly the unauthenticated POST, PUT
\* and DELETE requests that carry a body, hence on no signed request; the
\* signed requests carry the API-key header.
ContentTypeOnUnsignedBodies ==
    \A i \in 1..Len(sent) :
        /\ ("content-type" \in Headers(sent[i]))
               <=> (call.op \in {"post", "put", "delete"} /\ sent[i].hasBody)
        /\ call.op \in SignedVerbs \cup SignedCapabilities
               => "x-mbx-apikey" \in Headers(sent[i])

----------------------------------------------------------------------------
\* C5: every request the client issues, the unauthenticated GET of
\* get_orderbook, get_ticker, get_kline and get_symbols included, carries the
\* user-agent header.
UserAgentAlways ==
    \A i \in 1..Len(sent) : "user-agent" \in Headers(sent[i])

----------------------------------------------------------------------------
\* the account answered with is well formed and holds no entry for asset
AssetAbsent(asset) ==
    /\ resp.kind = "Response" /\ resp.status = 200 /\ resp.textOk
    /\ resp.body.shape = "account"
    /\ \A i \in 1..Len(resp.body.assets) : resp.body.assets[i].asset # asset

\* C6: get_balance(asset), answered 200 with an asset list that lacks the
\* asset, fails with the NotFound kind of error: not with a zero balance and
\* not with ApiError, the kind a non-200 answer gives.
BalanceAbsentIsNotFound ==
    (call.op = "get_balance" /\ AssetAbsent(call.args[1])) =>
        /\ result.kind = "Err"
        /\ result.err = "NotFound"
        /\ ~IsApiError(result)

----------------------------------------------------------------------------
\* C7: get_history_orders returns an Unsupported error to its caller, for
\* every symbol; it does not abort and sends no request.
HistoryOrdersUnsupported ==
    call.op = "get_history_orders" =>
        /\ result.kind = "Err"
        /\ result.err = "Unsupported"
        /\ sent = <<>>

----------------------------------------------------------------------------
\* the body answered with is an array of arrays with a row of under six cells
ShortKlineRow ==
    /\ resp.kind = "Response" /\ resp.status = 200 /\ resp.textOk
    /\ resp.body.shape = "array" /\ resp.body.elem = "array"
    /\ \E i \in 1..Len(resp.body.rows) : Len(resp.body.rows[i]) < 6

\* C8: no capability aborts on a 200 answer, whatever the shape of its JSON;
\* get_kline, answered with an array of arrays one row of which has under six
\* cells, returns a decode error.
NoPanicOnShape ==
    /\ (call.op \in Capabilities \cup {"get_symbols"}
            /\ resp.kind = "Response" /\ resp.status = 200)
           => result.kind # "Panic"
    /\ (call.op = "get_kline" /\ ShortKlineRow)
           => (result.kind = "Err" /\ result.err = "serde_json::Error")

----------------------------------------------------------------------------
\* C9: with the timestamp source unavailable, a signed capability fails with
\* a ClockError and sends no request.
ClockErrorAborts ==
    (call.op \in SignedCapabilities /\ ~clock.ok) =>
        /\ result.kind = "Err"
        /\ result.err = "ClockError"
        /\ sent = <<>>

----------------------------------------------------------------------------
\* the type the capability op decodes the body into, if it decodes it
DecodedType(op) ==
    CASE op = "get_orderbook" -> "RawOrderbook"
      [] op = "get_ticker" -> "RawTicker"
      [] op = "get_kline" -> "Vec<Vec<Value>>"
      [] op = "get_balance" -> "RawSwapAccount"
      [] op = "create_order" -> "OrderResult"
      [] op = "get_order" -> "RawOrder"
      [] op = "get_open_orders" -> "Vec<RawOrder>"
      [] OTHER -> ""

\* the call met a transport failure, a status that is not 200, or a body
\* that is not of the shape it expects
CallFailed ==
    \/ resp.kind = "SendError"
    \/ resp.kind = "Response" /\ (resp.status # 200 \/ ~resp.textOk)
    \/ /\ resp.kind = "Response" /\ resp.status = 200 /\ resp.textOk
       /\ DecodedType(call.op) # ""
       /\ \/ ~Decodes(DecodedType(call.op), resp.body)
          \/ call.op = "get_kline" /\ ShortKlineRow

\* C10: a capability call sends at most one request and ends in one outcome,
\* a value or an error; after a transport failure, a non-200 status or a
\* decode failure it returns an error and no value; cancel and cancel_all
\* return true, and only after a 200 answer, never false.
OneRequestOneOutcome ==
    call.op \in Capabilities =>
        /\ Len(sent) <= 1
        /\ result.kind \in {"Ok", "Err"}
        /\ CallFailed => result.kind = "Err"
        /\ (call.op \in {"cancel", "cancel_all"} /\ IsOk(result)) =>
               /\ resp.kind = "Response" /\ resp.status = 200
               /\ result.val = <<"bool", TRUE>>
====
